---- MODULE Spec2Model ----
(***************************************************************************)
(* mgplottools: the column writer io.writetotxt and the palette lookup     *)
(* mpl.get_color, as a state machine.                                      *)
(*                                                                         *)
(* A Python string is a sequence of one-character strings, so that         *)
(* startswith, slicing, split, join, count and the % operator are computed *)
(* character by character.  One call of writetotxt runs from pc = "idle"   *)
(* to pc = "done"; every print statement of the routine is one step.       *)
(***************************************************************************)
EXTENDS Integers, Sequences, FiniteSets, TLC

(* ------------------------------ bounds --------------------------------- *)
\* largest number of input arrays of a call
MaxCols == 3
\* largest length of an input array
MaxRows == 2
\* largest number of lines a sink of limited capacity accepts
MaxRoom == 2

(* ------------------------- Python str methods -------------------------- *)
NL == "\n"

\* str.startswith
StartsWith(s, p) == Len(p) <= Len(s) /\ SubSeq(s, 1, Len(p)) = p

\* str.endswith
EndsWith(s, p) == Len(p) <= Len(s) /\ SubSeq(s, Len(s) - Len(p) + 1, Len(s)) = p

\* " " * n
Spaces(n) == [i \in 1..n |-> " "]

\* s[n:]
DropFirst(s, n) == SubSeq(s, n + 1, Len(s))

\* s[:-n] for n > 0
DropLast(s, n) == SubSeq(s, 1, Len(s) - n)

\* str.count of a one-character string
Count(s, c) == Cardinality({i \in DOMAIN s : s[i] = c})

\* sep.join(list)
RECURSIVE Join(_, _)
Join(sep, list) ==
    IF list = <<>> THEN <<>>
    ELSE IF Len(list) = 1 THEN list[1]
    ELSE list[1] \o sep \o Join(sep, Tail(list))

\* s.split("\n"): always at least one piece, empty pieces kept
RECURSIVE SplitLines(_)
SplitLines(s) ==
    IF \A i \in DOMAIN s : s[i] # NL THEN <<s>>
    ELSE LET k == CHOOSE i \in DOMAIN s :
                      s[i] = NL /\ \A j \in 1..(i - 1) : s[j] # NL
         IN  <<SubSeq(s, 1, k - 1)>> \o SplitLines(DropFirst(s, k))

(* --------------------------- the % operator ---------------------------- *)
\* A scalar handed to the % operator: an int (an element of a real array) or
\* a float (the real or imaginary part of a complex element).  num is its
\* value, a whole number.
PyInt(n)   == [num |-> n, isint |-> TRUE]
PyFloat(n) == [num |-> n, isint |-> FALSE]

FmtOk(text)  == [err |-> "none", text |-> text]
FmtErr(kind) == [err |-> kind, text |-> <<>>]

FmtCons(prefix, r) == IF r.err # "none" THEN r ELSE FmtOk(prefix \o r.text)

\* the digits of the bases 8, 10 and 16, lower case and upper case
LowDigits == <<"0", "1", "2", "3", "4", "5", "6", "7", "8", "9",
               "a", "b", "c", "d", "e", "f">>
UpDigits  == <<"0", "1", "2", "3", "4", "5", "6", "7", "8", "9",
               "A", "B", "C", "D", "E", "F">>

DigitChars == {"0", "1", "2", "3", "4", "5", "6", "7", "8", "9"}

\* the flag characters of a conversion specification
FlagChars == {"-", "+", " ", "#", "0"}

Digit(n) == LowDigits[n + 1]

\* the decimal digits of n >= 0
RECURSIVE Digits(_)
Digits(n) == IF n < 10 THEN <<Digit(n)>> ELSE Digits(n \div 10) \o <<Digit(n % 10)>>

\* the digits of n >= 0 in base b, taken from the alphabet al
RECURSIVE InBase(_, _, _)
InBase(n, b, al) ==
    IF n < b THEN <<al[n + 1]>> ELSE InBase(n \div b, b, al) \o <<al[(n % b) + 1]>>

Abs(n) == IF n < 0 THEN -n ELSE n

RECURSIVE Pow10(_)
Pow10(k) == IF k <= 0 THEN 1 ELSE 10 * Pow10(k - 1)

Zeros(k) == [i \in 1..k |-> "0"]

\* d filled with zeros on the left up to p characters
ZeroPad(d, p) == Zeros(p - Len(d)) \o d

\* the number written by a run of decimal digits
RECURSIVE ParseNat(_)
ParseNat(ds) ==
    IF ds = <<>> THEN 0
    ELSE 10 * ParseNat(DropLast(ds, 1))
         + ((CHOOSE i \in 1..10 : LowDigits[i] = ds[Len(ds)]) - 1)

\* the first position from p on whose character is not in S, Len(t) + 1 if
\* there is none
FirstNot(t, p, S) ==
    CHOOSE i \in p..(Len(t) + 1) :
        /\ i = Len(t) + 1 \/ t[i] \notin S
        /\ \A j \in p..(i - 1) : t[j] \in S

\* s without its trailing zeros
RECURSIVE StripZeros(_)
StripZeros(s) ==
    IF s # <<>> /\ s[Len(s)] = "0" THEN StripZeros(DropLast(s, 1)) ELSE s

\* chr(n) for n in 0..255; a character that is not printable, and the
\* backquote, stands as its escape
Chr(n) ==
    <<"\\x00", "\\x01", "\\x02", "\\x03", "\\x04", "\\x05", "\\x06", "\\x07",
      "\\x08", "\t", "\n", "\\x0b", "\f", "\r", "\\x0e", "\\x0f", "\\x10",
      "\\x11", "\\x12", "\\x13", "\\x14", "\\x15", "\\x16", "\\x17", "\\x18",
      "\\x19", "\\x1a", "\\x1b", "\\x1c", "\\x1d", "\\x1e", "\\x1f", " ",
      "!", "\"", "#", "$", "%", "&", "'", "(", ")", "*", "+", ",", "-", ".",
      "/", "0", "1", "2", "3", "4", "5", "6", "7", "8", "9", ":", ";", "<",
      "=", ">", "?", "@", "A", "B", "C", "D", "E", "F", "G", "H", "I", "J",
      "K", "L", "M", "N", "O", "P", "Q", "R", "S", "T", "U", "V", "W", "X",
      "Y", "Z", "[", "\\", "]", "^", "_", "\\x60", "a", "b", "c", "d", "e",
      "f", "g", "h", "i", "j", "k", "l", "m", "n", "o", "p", "q", "r", "s",
      "t", "u", "v", "w", "x", "y", "z", "{", "|", "}", "~", "\\x7f",
      "\\x80", "\\x81", "\\x82", "\\x83", "\\x84", "\\x85", "\\x86", "\\x87",
      "\\x88", "\\x89", "\\x8a", "\\x8b", "\\x8c", "\\x8d", "\\x8e", "\\x8f",
      "\\x90", "\\x91", "\\x92", "\\x93", "\\x94", "\\x95", "\\x96", "\\x97",
      "\\x98", "\\x99", "\\x9a", "\\x9b", "\\x9c", "\\x9d", "\\x9e", "\\x9f",
      "\\xa0", "\\xa1", "\\xa2", "\\xa3", "\\xa4", "\\xa5", "\\xa6", "\\xa7",
      "\\xa8", "\\xa9", "\\xaa", "\\xab", "\\xac", "\\xad", "\\xae", "\\xaf",
      "\\xb0", "\\xb1", "\\xb2", "\\xb3", "\\xb4", "\\xb5", "\\xb6", "\\xb7",
      "\\xb8", "\\xb9", "\\xba", "\\xbb", "\\xbc", "\\xbd", "\\xbe", "\\xbf",
      "\\xc0", "\\xc1", "\\xc2", "\\xc3", "\\xc4", "\\xc5", "\\xc6", "\\xc7",
      "\\xc8", "\\xc9", "\\xca", "\\xcb", "\\xcc", "\\xcd", "\\xce", "\\xcf",
      "\\xd0", "\\xd1", "\\xd2", "\\xd3", "\\xd4", "\\xd5", "\\xd6", "\\xd7",
      "\\xd8", "\\xd9", "\\xda", "\\xdb", "\\xdc", "\\xdd", "\\xde", "\\xdf",
      "\\xe0", "\\xe1", "\\xe2", "\\xe3", "\\xe4", "\\xe5", "\\xe6", "\\xe7",
      "\\xe8", "\\xe9", "\\xea", "\\xeb", "\\xec", "\\xed", "\\xee", "\\xef",
      "\\xf0", "\\xf1", "\\xf2", "\\xf3", "\\xf4", "\\xf5", "\\xf6", "\\xf7",
      "\\xf8", "\\xf9", "\\xfa", "\\xfb", "\\xfc", "\\xfd", "\\xfe", "\\xff">>[n + 1]

\* the size of the buffer the interpreter formats an int into
FormatBufLen == 120

\* the conversions d, i, u, o, x, X of the int n with precision prec (-1: none
\* given): at least prec digits (one by default, none for 0 with precision
\* 0); the flag # puts a 0 before an octal number that has none and 0x or 0X
\* before a hexadecimal one.  A precision that leaves no room for sign and
\* prefix in the buffer is an OverflowError.
IntBody(alt, prec, c, n) ==
    LET p      == IF prec < 0 THEN 1 ELSE prec
        a      == Abs(n)
        sgn    == IF n < 0 THEN <<"-">> ELSE <<>>
        raw(b, al) == IF a = 0 /\ p = 0 THEN <<>> ELSE ZeroPad(InBase(a, b, al), p)
    IN  IF FormatBufLen <= 3 + p THEN FmtErr("OverflowError")
        ELSE IF c = "o"
        THEN LET r == raw(8, LowDigits)
             IN  FmtOk(sgn \o (IF alt /\ (r = <<>> \/ r[1] # "0") THEN <<"0">> \o r ELSE r))
        ELSE IF c \in {"x", "X"}
        THEN FmtOk(sgn \o (IF alt THEN <<"0", c>> ELSE <<>>)
                       \o raw(16, IF c = "X" THEN UpDigits ELSE LowDigits))
        ELSE FmtOk(sgn \o raw(10, LowDigits))

\* a >= 0 rounded to k significant digits, ties to even: the k digits, the
\* decimal exponent of the first one, and whether a lay halfway between two
\* numbers of k digits and went down to the even one
RoundSig(a, k) ==
    IF a = 0 THEN [m |-> Zeros(k), x |-> 0, down |-> FALSE]
    ELSE LET D == Digits(a)
             L == Len(D)
         IN  IF L <= k THEN [m |-> D \o Zeros(k - L), x |-> L - 1, down |-> FALSE]
             ELSE LET q    == Pow10(L - k)
                      base == a \div q
                      r    == a % q
                      up   == 2 * r > q \/ (2 * r = q /\ base % 2 = 1)
                      rb   == IF up THEN base + 1 ELSE base
                  IN  IF rb = Pow10(k)
                      THEN [m |-> <<"1">> \o Zeros(k - 1), x |-> L, down |-> FALSE]
                      ELSE [m |-> Digits(rb), x |-> L - 1,
                            down |-> 2 * r = q /\ base % 2 = 0]

\* the exponent of the conversions e, E, g, G: a sign and at least two digits
ExpText(x, c) ==
    <<IF c \in {"E", "G"} THEN "E" ELSE "e", "+">> \o ZeroPad(Digits(x), 2)

\* the conversions e, E, f, F, g, G of the whole number n with precision prec
\* (-1: none given, which is 6).  The conversions g and G drop the trailing
\* zeros of the digits unless the flag # is given; the interpreter leaves
\* them also when the number lay halfway and was rounded down.
FloatBody(alt, prec, c, n) ==
    LET p    == IF prec < 0 THEN 6 ELSE prec
        a    == Abs(n)
        sgn  == IF n < 0 THEN <<"-">> ELSE <<>>
        frac(digits) == IF digits # <<>> THEN <<".">> \o digits
                        ELSE IF alt THEN <<".">> ELSE <<>>
    IN  IF c \in {"f", "F"}
        THEN sgn \o Digits(a) \o frac(Zeros(p))
        ELSE IF c \in {"e", "E"}
        THEN LET r == RoundSig(a, p + 1)
             IN  sgn \o <<r.m[1]>> \o frac(Tail(r.m)) \o ExpText(r.x, c)
        ELSE LET P == IF p = 0 THEN 1 ELSE p
                 r == RoundSig(a, P)
                 kept(digits) == IF alt \/ r.down THEN digits ELSE StripZeros(digits)
             IN  IF r.x < P
                 THEN sgn \o SubSeq(r.m, 1, r.x + 1) \o frac(kept(SubSeq(r.m, r.x + 2, P)))
                 ELSE sgn \o <<r.m[1]>> \o frac(kept(Tail(r.m))) \o ExpText(r.x, c)

\* str(v) and repr(v) of a scalar, cut to prec characters if prec >= 0
StrBody(prec, v) ==
    LET s == (IF v.num < 0 THEN <<"-">> ELSE <<>>) \o Digits(Abs(v.num))
             \o (IF v.isint THEN <<>> ELSE <<".", "0">>)
    IN  IF prec >= 0 /\ Len(s) > prec THEN SubSeq(s, 1, prec) ELSE s

\* The converted text body put into its field.  A number (signed) has its
\* sign split off, or gets one from the flags + and space; the field is at
\* least width wide, filled on the left with spaces, or with zeros after the
\* sign and the 0x of the flag # when the flag 0 is given for a number, or
\* filled on the right with spaces when ljust.
Pad(body, signed, flags, width, ljust, c) ==
    LET fill    == IF signed /\ "0" \in flags THEN "0" ELSE " "
        hasSign == signed /\ body # <<>> /\ body[1] \in {"-", "+"}
        sign    == IF ~signed THEN <<>>
                   ELSE IF hasSign THEN <<body[1]>>
                   ELSE IF "+" \in flags THEN <<"+">>
                   ELSE IF " " \in flags THEN <<" ">>
                   ELSE <<>>
        body1   == IF hasSign THEN Tail(body) ELSE body
        w1      == IF width < Len(body1) THEN Len(body1) ELSE width
        w2      == IF sign # <<>> /\ w1 > Len(body1) THEN w1 - 1 ELSE w1
        hexalt  == "#" \in flags /\ c \in {"x", "X"}
        prefix  == IF hexalt THEN SubSeq(body1, 1, 2) ELSE <<>>
        body2   == IF hexalt THEN DropFirst(body1, 2) ELSE body1
        w3      == IF ~hexalt THEN w2 ELSE IF w2 < 2 THEN 0 ELSE w2 - 2
        padn    == IF w3 > Len(body2) THEN w3 - Len(body2) ELSE 0
    IN  IF ljust THEN sign \o prefix \o body2 \o Spaces(padn)
        ELSE IF fill = "0" THEN sign \o prefix \o Zeros(padn) \o body2
        ELSE Spaces(padn) \o sign \o prefix \o body2

ConvErr(kind) == [err |-> kind, text |-> <<>>, next |-> 0, vals |-> <<>>]

\* the width of the conversion specification whose flags end before position
\* q <= Len(t): a * takes the next value, which must be an int, and a
\* negative one justifies to the left; or a run of digits; or none
WidthPart(t, q, vals) ==
    IF t[q] = "*"
    THEN IF vals = <<>> \/ ~vals[1].isint THEN [err |-> "TypeError"]
         ELSE IF q + 1 > Len(t) THEN [err |-> "ValueError"]
         ELSE [err |-> "none", width |-> Abs(vals[1].num), ljust |-> vals[1].num < 0,
               next |-> q + 1, vals |-> Tail(vals)]
    ELSE IF t[q] \in DigitChars
    THEN LET q2 == FirstNot(t, q, DigitChars)
         IN  IF q2 > Len(t) THEN [err |-> "ValueError"]
             ELSE [err |-> "none", width |-> ParseNat(SubSeq(t, q, q2 - 1)),
                   ljust |-> FALSE, next |-> q2, vals |-> vals]
    ELSE [err |-> "none", width |-> -1, ljust |-> FALSE, next |-> q, vals |-> vals]

\* the precision at position q <= Len(t): a dot followed by a * (the next
\* value, an int, a negative one counting as 0), by a run of digits, or by
\* nothing (precision 0); -1 if there is no dot
PrecPart(t, q, vals) ==
    IF t[q] # "."
    THEN [err |-> "none", prec |-> -1, next |-> q, vals |-> vals]
    ELSE IF q + 1 > Len(t) THEN [err |-> "ValueError"]
    ELSE IF t[q + 1] = "*"
    THEN IF vals = <<>> \/ ~vals[1].isint THEN [err |-> "TypeError"]
         ELSE IF q + 2 > Len(t) THEN [err |-> "ValueError"]
         ELSE [err |-> "none", prec |-> IF vals[1].num < 0 THEN 0 ELSE vals[1].num,
               next |-> q + 2, vals |-> Tail(vals)]
    ELSE IF t[q + 1] \in DigitChars
    THEN LET q3 == FirstNot(t, q + 1, DigitChars)
         IN  IF q3 > Len(t) THEN [err |-> "ValueError"]
             ELSE [err |-> "none", prec |-> ParseNat(SubSeq(t, q + 1, q3 - 1)),
                   next |-> q3, vals |-> vals]
    ELSE [err |-> "none", prec |-> 0, next |-> q + 1, vals |-> vals]

\* the body b of a number put into its field, or the error of b
Padded(b, flags, width, ljust, c) ==
    IF b.err # "none" THEN b ELSE FmtOk(Pad(b.text, TRUE, flags, width, ljust, c))

\* The value v converted by the conversion character c: a ValueError for a
\* character that is no conversion, a TypeError for %c of a float, an
\* OverflowError for %c of an int outside 0..255 and for an int conversion
\* whose precision is too large.
Converted(c, v, flags, prec, width, ljust) ==
    IF c \in {"d", "i", "u", "o", "x", "X"}
    THEN Padded(IntBody("#" \in flags, prec, c, v.num), flags, width, ljust, c)
    ELSE IF c \in {"e", "E", "f", "F", "g", "G"}
    THEN FmtOk(Pad(FloatBody("#" \in flags, prec, c, v.num), TRUE, flags, width, ljust, c))
    ELSE IF c \in {"s", "r"}
    THEN FmtOk(Pad(StrBody(prec, v), FALSE, flags, width, ljust, c))
    ELSE IF c = "c"
    THEN IF ~v.isint THEN FmtErr("TypeError")
         ELSE IF v.num < 0 \/ v.num > 255 THEN FmtErr("OverflowError")
         ELSE FmtOk(Pad(<<Chr(v.num)>>, FALSE, flags, width, ljust, c))
    ELSE FmtErr("ValueError")

\* the conversion is done: the text or the error of the converted value r,
\* the position after the conversion character, the values left
ConvDone(r, next, vals) == [err |-> r.err, text |-> r.text, next |-> next, vals |-> vals]

\* The conversion character at position q4.  Every conversion but %% takes
\* the next value before its character is looked at, so a missing value is a
\* TypeError whatever the character is.
ConvChar(t, flags, width, ljust, prec, q4, vals) ==
    IF q4 > Len(t) THEN ConvErr("ValueError")
    ELSE IF t[q4] = "%"
    THEN [err |-> "none", next |-> q4 + 1, vals |-> vals,
          text |-> Pad(<<"%">>, FALSE, flags, width, ljust, "%")]
    ELSE IF vals = <<>> THEN ConvErr("TypeError")
    ELSE ConvDone(Converted(t[q4], vals[1], flags, prec, width, ljust),
                  q4 + 1, Tail(vals))

\* after the precision pr: a length modifier h, l or L is passed over
ConvPrec(t, flags, width, ljust, pr) ==
    IF pr.err # "none" THEN ConvErr(pr.err)
    ELSE ConvChar(t, flags, width, ljust, pr.prec,
                  IF t[pr.next] \in {"h", "l", "L"} THEN pr.next + 1 ELSE pr.next,
                  pr.vals)

\* after the width w: the precision
ConvWidth(t, flags, w) ==
    IF w.err # "none" THEN ConvErr(w.err)
    ELSE ConvPrec(t, flags, w.width, w.ljust \/ "-" \in flags,
                  PrecPart(t, w.next, w.vals))

\* after the flags, which end before position q1: the width
ConvFlags(t, p, q1, vals) ==
    IF q1 > Len(t) THEN ConvErr("ValueError")
    ELSE ConvWidth(t, {t[i] : i \in p..(q1 - 1)}, WidthPart(t, q1, vals))

\* The conversion specification of t that starts after the % at position
\* p - 1: flags, width, precision, a length modifier, the conversion
\* character.  The template ending before the conversion character is a
\* ValueError, a mapping key a TypeError.
Conv(t, p, vals) ==
    IF p > Len(t) THEN ConvErr("ValueError")
    ELSE IF t[p] = "(" THEN ConvErr("TypeError")
    ELSE ConvFlags(t, p, FirstNot(t, p, FlagChars), vals)

\* template % tuple(vals): the text, or the error raised.  A value left over
\* at the end of the template is a TypeError.
RECURSIVE PyFormat(_, _)
RECURSIVE AfterConv(_, _)

\* the template after the conversion c of its first specification
AfterConv(t, c) ==
    IF c.err # "none" THEN FmtErr(c.err)
    ELSE FmtCons(c.text, PyFormat(DropFirst(t, c.next - 1), c.vals))

PyFormat(t, vals) ==
    IF t = <<>>
    THEN IF vals = <<>> THEN FmtOk(<<>>) ELSE FmtErr("TypeError")
    ELSE IF t[1] # "%"
    THEN FmtCons(<<t[1]>>, PyFormat(Tail(t), vals))
    ELSE AfterConv(t, Conv(t, 2, vals))

(* ------------------------------ inputs --------------------------------- *)
\* An input array: np.iscomplexobj(a) and its elements.  A real array holds
\* ints, and its elements have im = 0.  The element values depend on the
\* position of the array and of the row, so that every scalar of a call is
\* different.
MkCol(c, n, j) ==
    [cplx |-> c,
     el   |-> [i \in 1..n |->
                 [re |-> MaxRows * (j - 1) + i,
                  im |-> IF c THEN MaxRows * MaxCols + MaxRows * (j - 1) + i ELSE 0]]]

ArgsOf(shape) == [j \in DOMAIN shape |-> MkCol(shape[j].cplx, shape[j].len, j)]

Shapes == UNION {[1..n -> [cplx : BOOLEAN, len : 0..MaxRows]] : n \in 0..MaxCols}

Sh(c, n) == [cplx |-> c, len |-> n]

\* fmt, header and footer are each a str or a list of str
Str(x) == [kind |-> "str", s |-> x, l |-> <<>>]
Lst(x) == [kind |-> "list", s |-> <<>>, l |-> x]

PD == <<"%", "d">>

\* the fmt of a call that passes none
DefaultFmt == <<"%", ".", "1", "8", "e">>

\* fname: a str (the path), an object with a write attribute, or neither
PathTxt  == [isstr |-> TRUE,  name |-> <<"o", ".", "t">>,      haswrite |-> FALSE]
PathGz   == [isstr |-> TRUE,  name |-> <<"o", ".", "g", "z">>, haswrite |-> FALSE]
Stream   == [isstr |-> FALSE, name |-> <<>>,                   haswrite |-> TRUE]
NotASink == [isstr |-> FALSE, name |-> <<>>,                   haswrite |-> FALSE]

\* The environment of a call: whether open() succeeds, how many lines the
\* sink accepts before a print statement raises IOError (limited = FALSE: any
\* number), and whether fh.close() raises IOError, as it does when the lines
\* the print statements buffered cannot be flushed to a full device.
Healthy == [canOpen |-> TRUE, limited |-> FALSE, room |-> 0, closeFails |-> FALSE]

Envs ==
    {e \in [canOpen : BOOLEAN, limited : BOOLEAN, room : 0..MaxRoom, closeFails : BOOLEAN] :
        /\ ~e.limited => e.room = 0
        /\ ~e.canOpen => ~e.closeFails}

Call(f, e, a, fm, d, h, ft, c) ==
    [fname |-> f, env |-> e, args |-> a, fmt |-> fm, delimiter |-> d,
     header |-> h, footer |-> ft, comments |-> c]

\* calls that exercise the sink: every kind of fname and environment, with
\* data that reaches every way out of the routine
SinkInputs ==
    {Call(f, e, ArgsOf(s), fm, <<" ">>, h, Lst(<<<<"e">>>>), <<"#", " ">>) :
        f \in {PathTxt, PathGz, Stream, NotASink}, e \in Envs,
        s \in {<<Sh(FALSE, 2)>>, <<Sh(FALSE, 1), Sh(FALSE, 2)>>,
               <<Sh(FALSE, 0), Sh(FALSE, 1)>>, <<Sh(TRUE, 1)>>},
        fm \in {Str(PD), Str(PD \o PD), Str(<<"%", "*", "d">>), Lst(<<PD, PD>>)},
        h \in {Str(<<>>), Str(<<"t">>)}}

\* calls that exercise the header and footer handling
Headers ==
    {Str(<<>>), Str(<<"t">>), Str(<<" ", " ", "t">>), Str(<<"t", NL>>),
     Str(<<"#", " ", "t", NL, " ", " ", "t", NL, "t", NL, " ", "t">>),
     Lst(<<>>), Lst(<<<<>>>>), Lst(<<<<>>, <<>>>>), Lst(<<<<"t">>, <<>>>>),
     Lst(<<<<"#", " ", "t">>, <<" ", " ", " ", "t">>>>),
     Lst(<<<<"#", "t">>, <<" ", "#", " ", "t">>>>)}

Footers ==
    {Str(<<>>), Str(<<" ", " ", "e", NL, "e">>), Lst(<<<<>>>>),
     Lst(<<<<"#", " ", "e">>, <<>>, <<" ", "e">>>>)}

HeaderInputs ==
    {Call(Stream, Healthy, ArgsOf(<<Sh(FALSE, 1)>>), Str(PD), <<>>, h, ft, c) :
        h \in Headers, ft \in Footers, c \in {<<"#", " ">>, <<"#">>, <<>>}}

\* calls that exercise the data: every shape of the input arrays with every
\* form of fmt, after a header of two lines
Fmts ==
    {Str(PD), Str(DefaultFmt), Str(<<"k">>), Str(<<"k", "=">> \o PD), Str(PD \o PD),
     Str(PD \o <<" ">> \o PD \o <<" ">> \o PD),
     Lst(<<PD>>), Lst(<<PD, PD>>), Lst(<<PD, PD, PD>>)}

Delimiters == {<<>>, <<" ">>, <<"%", "*", "d">>}

DataInputs ==
    {Call(Stream, Healthy, ArgsOf(s), fm, d, h, Lst(<<<<"e">>>>), <<"#", " ">>) :
        s \in Shapes, fm \in Fmts, d \in Delimiters,
        h \in {Str(<<"t", NL, " ", " ", "u">>)}}

\* calls that exercise the % operator: conversion specifications with flags,
\* a width, a precision or a length modifier, the conversions of ints and of
\* floats, a character that is no conversion, and templates that end early
Templates ==
    {DefaultFmt, <<"%", "1", "0", ".", "5", "f">>, <<"%", "5", "d">>, <<"%", " ", "d">>,
     <<"%", "-", "3", "d", "|">>, <<"%", "0", "3", "d">>, <<"%", "+", "d">>,
     <<"%", "k">>, <<"%", "*", "k">>, <<"%", " ", "%">>, <<"%", "5", "%">>,
     <<"%", "s">>, <<"%", ".", "2", "s">>, <<"%", "c">>, <<"%", "#", "x">>,
     <<"%", "#", "o">>, <<"%", "g">>, <<"%", "(">>, <<"%", ".", "*", "f">>,
     <<"%", "l", "d">>, <<"%", "5">>, <<"%", ".", "0", "e">>,
     <<"%", ".", "2", "g">>, <<"%", ".", "3", "d">>, <<"%", ".", "1", "1", "7", "d">>}

\* a real array of one element
OneReal(n) == <<[cplx |-> FALSE, el |-> <<[re |-> n, im |-> 0]>>]>>

\* arrays for the templates: a real one, a complex one, two real ones, and
\* real ones whose element lies halfway between two numbers of 2 digits (105,
\* 115), beside one (104) or on one (100)
FormatArgs ==
    {ArgsOf(<<Sh(FALSE, 1)>>), ArgsOf(<<Sh(TRUE, 1)>>),
     ArgsOf(<<Sh(FALSE, 1), Sh(FALSE, 1)>>),
     OneReal(100), OneReal(104), OneReal(105), OneReal(115)}

FormatInputs ==
    {Call(Stream, Healthy, a, Str(t), <<" ">>, Str(<<>>), Str(<<>>), <<"#", " ">>) :
        a \in FormatArgs, t \in Templates}

Inputs == SinkInputs \cup HeaderInputs \cup DataInputs \cup FormatInputs

(* ------------------------------- state --------------------------------- *)
VARIABLES
    pc,                 \* position of the program: idle, header, rows, footer, finally, done
    callee,             \* the function that was called: none, writetotxt, get_color
    fname, env, args, fmt, delimiter, header, footer, comments,   \* the call
    own_fh,             \* the routine opened the sink itself
    fh,                 \* the sink's handle: none, open, closed
    opener,             \* what produced fh: none, open, gzip.open, caller
    out,                \* the lines printed to fh by this call, in order
    exc,                \* the exception the call raises, or none
    header_lines,       \* lines of the header still to be printed
    footer_lines,       \* lines of the footer still to be printed
    n_cols, n_rows, row_fmt, completed_row_fmt, i_row, row_data,
    color_call,         \* the arguments get_color was called with
    ret                 \* the value get_color returned or the error it raised

inputs == <<fname, env, args, fmt, delimiter, header, footer, comments>>
sink   == <<own_fh, fh, opener>>
locals == <<n_cols, n_rows, row_fmt, completed_row_fmt, i_row, row_data>>
color  == <<color_call, ret>>
vars   == <<pc, callee, inputs, sink, out, exc, header_lines, footer_lines, locals, color>>

NoReturn == [type |-> "none", val |-> <<>>]

Init ==
    /\ pc = "idle" /\ callee = "none"
    /\ fname = NotASink /\ env = Healthy /\ args = <<>>
    /\ fmt = Str(<<>>) /\ delimiter = <<>>
    /\ header = Str(<<>>) /\ footer = Str(<<>>) /\ comments = <<>>
    /\ own_fh = FALSE /\ fh = "none" /\ opener = "none"
    /\ out = <<>> /\ exc = "none"
    /\ header_lines = <<>> /\ footer_lines = <<>>
    /\ n_cols = 0 /\ n_rows = 0 /\ row_fmt = <<>> /\ completed_row_fmt = FALSE
    /\ i_row = 0 /\ row_data = <<>>
    /\ color_call = [name |-> <<>>, alpha |-> 0, format |-> "web"]
    /\ ret = NoReturn

(* ----------------------------- writetotxt ------------------------------ *)
\* mutant: lines that are empty are left out
BlockLinesNoBlank(block) ==
    LET text == IF block.kind = "list" THEN Join(<<NL>>, block.l) ELSE block.s
    IN  IF Len(text) > 0
        THEN SelectSeq(SplitLines(text), LAMBDA line : line # <<>>)
        ELSE <<>>

\* The lines a header or footer is printed as: a list is joined with "\n",
\* and a text of length 0 prints nothing.
BlockLines(block) ==
    LET text == IF block.kind = "list" THEN Join(<<NL>>, block.l) ELSE block.s
    IN  IF Len(text) > 0 THEN SplitLines(text) ELSE <<>>

\* the comment prefix of a header line
HeaderLine(line, c) ==
    IF ~StartsWith(line, c)
    THEN IF StartsWith(line, Spaces(Len(c)))
         THEN c \o DropFirst(line, Len(c))
         ELSE c \o line
    ELSE line

\* mutant: the prefix is always put in front, as numpy.savetxt does
FooterLinePrepend(line, c) == IF ~StartsWith(line, c) THEN c \o line ELSE line

\* the comment prefix of a footer line
FooterLine(line, c) ==
    IF ~StartsWith(line, c)
    THEN IF StartsWith(line, Spaces(Len(c)))
         THEN c \o DropFirst(line, Len(c))
         ELSE c \o line
    ELSE line

\* the messages of the three ValueErrors the routine raises
ErrSink   == "ValueError: fname must be a string or file handle"
ErrLength == "ValueError: All arrays must be of same length"
ErrFormat == "ValueError: fmt has wrong number of % formats"

\* print >> fh raises IOError once the sink is full
CanWrite == ~env.limited \/ Len(out) < env.room

Printed(src, text, tmpl, vals) ==
    [src |-> src, text |-> text, tmpl |-> tmpl, vals |-> vals]

\* mutant: whatever is no str is taken as a file handle
OpenSinkUnchecked(f, e) ==
    IF f.isstr
    THEN IF e.canOpen
         THEN [exc |-> "none", own_fh |-> TRUE, fh |-> "open",
               opener |-> IF EndsWith(f.name, <<".", "g", "z">>)
                          THEN "gzip.open" ELSE "open"]
         ELSE [exc |-> "IOError", own_fh |-> TRUE, fh |-> "none", opener |-> "none"]
    ELSE [exc |-> "none", own_fh |-> FALSE, fh |-> "open", opener |-> "caller"]

\* the sink fname stands for
OpenSink(f, e) ==
    IF f.isstr
    THEN IF e.canOpen
         THEN [exc |-> "none", own_fh |-> TRUE, fh |-> "open",
               opener |-> IF EndsWith(f.name, <<".", "g", "z">>)
                          THEN "gzip.open" ELSE "open"]
         ELSE [exc |-> "IOError", own_fh |-> TRUE, fh |-> "none", opener |-> "none"]
    ELSE IF f.haswrite
    THEN [exc |-> "none", own_fh |-> FALSE, fh |-> "open", opener |-> "caller"]
    ELSE [exc |-> ErrSink,
          own_fh |-> FALSE, fh |-> "none", opener |-> "none"]

\* writetotxt(fname, *args, **kwargs) up to the try statement
Enter ==
    /\ pc = "idle"
    /\ callee' = "writetotxt"
    /\ \E inp \in Inputs :
         LET s == OpenSink(inp.fname, inp.env)
         IN  /\ fname' = inp.fname /\ env' = inp.env /\ args' = inp.args
             /\ fmt' = inp.fmt /\ delimiter' = inp.delimiter
             /\ header' = inp.header /\ footer' = inp.footer
             /\ comments' = inp.comments
             /\ own_fh' = s.own_fh /\ fh' = s.fh /\ opener' = s.opener
             /\ exc' = s.exc
             /\ IF s.exc = "none"
                THEN pc' = "header" /\ header_lines' = BlockLines(inp.header)
                ELSE pc' = "done" /\ header_lines' = <<>>
    /\ UNCHANGED <<out, footer_lines, locals, color>>

\* mutant: the arrays and fmt are checked before the header is printed
HeaderWrittenEarly(lines) == TRUE

\* the loop over the lines of the header has come to its end
HeaderWritten(lines) == lines = <<>>

\* one turn of the loop that prints the header
WriteHeaderLine ==
    /\ pc = "header" /\ ~HeaderWritten(header_lines)
    /\ IF CanWrite
       THEN /\ out' = Append(out, Printed("header",
                          HeaderLine(Head(header_lines), comments), <<>>, <<>>))
            /\ header_lines' = Tail(header_lines)
            /\ UNCHANGED <<pc, exc>>
       ELSE /\ exc' = "IOError" /\ pc' = "finally"
            /\ UNCHANGED <<out, header_lines>>
    /\ UNCHANGED <<callee, inputs, sink, footer_lines, locals, color>>

\* mutant: a str fmt with a single % is taken as a complete row format too
InitialRowFmtAnyMarker(f, d) ==
    IF f.kind = "list"
    THEN [row_fmt |-> Join(d, f.l), completed |-> TRUE]
    ELSE IF Count(f.s, "%") > 0
    THEN [row_fmt |-> f.s, completed |-> TRUE]
    ELSE [row_fmt |-> <<>>, completed |-> FALSE]

\* row_fmt and completed_row_fmt before the arrays are looked at
InitialRowFmt(f, d) ==
    IF f.kind = "list"
    THEN [row_fmt |-> Join(d, f.l), completed |-> TRUE]
    ELSE IF Count(f.s, "%") > 1
    THEN [row_fmt |-> f.s, completed |-> TRUE]
    ELSE [row_fmt |-> <<>>, completed |-> FALSE]

\* the test on the length of an array
LengthMismatch(rows, len) == rows # 0 /\ rows # len

\* mutant: every array counts as one column
WidthOne(a) == 1

\* the number of columns an array is written as
Width(a) == IF a.cplx THEN 2 ELSE 1

\* the loop over the arrays, from array k on
RECURSIVE ScanArgs(_, _, _, _, _, _)
ScanArgs(as, k, f, d, completed, st) ==
    IF k > Len(as) THEN st
    ELSE LET a   == as[k]
             len == Len(a.el)
         IN  IF LengthMismatch(st.n_rows, len)
             THEN [st EXCEPT !.exc = ErrLength, !.at = k]
             ELSE ScanArgs(as, k + 1, f, d, completed,
                      [exc     |-> "none",
                       at      |-> 0,
                       n_rows  |-> IF st.n_rows = 0 THEN len ELSE st.n_rows,
                       n_cols  |-> st.n_cols + Width(a),
                       row_fmt |-> IF completed THEN st.row_fmt
                                   ELSE IF a.cplx
                                   THEN st.row_fmt \o f.s \o d \o f.s \o d
                                   ELSE st.row_fmt \o f.s \o d])

\* the test on the number of formats
SlotMismatch(template, cols) == Count(template, "%") # cols

\* the row format without the delimiter after its last column
StripDelimiter(template, d) ==
    IF Len(d) > 0 THEN DropLast(template, Len(d)) ELSE template

\* "check input data and prepare row format"
Prepare ==
    /\ pc = "header" /\ HeaderWritten(header_lines)
    /\ LET r0 == InitialRowFmt(fmt, delimiter)
           st == ScanArgs(args, 1, fmt, delimiter, r0.completed,
                          [exc |-> "none", at |-> 0, n_rows |-> 0, n_cols |-> 0,
                           row_fmt |-> r0.row_fmt])
       IN  /\ n_rows' = st.n_rows /\ n_cols' = st.n_cols
           /\ IF st.exc # "none"
              THEN /\ exc' = st.exc /\ pc' = "finally"
                   /\ row_fmt' = st.row_fmt /\ completed_row_fmt' = r0.completed
              ELSE IF SlotMismatch(st.row_fmt, st.n_cols)
              THEN /\ exc' = ErrFormat /\ pc' = "finally"
                   /\ row_fmt' = st.row_fmt /\ completed_row_fmt' = r0.completed
              ELSE /\ exc' = "none" /\ pc' = "rows"
                   /\ row_fmt' = IF r0.completed THEN st.row_fmt
                                 ELSE StripDelimiter(st.row_fmt, delimiter)
                   /\ completed_row_fmt' = TRUE
    /\ i_row' = 0
    /\ UNCHANGED <<callee, inputs, sink, out, header_lines, footer_lines, row_data, color>>

\* mutant: the imaginary part is put before the real part
ElemValuesSwapped(a, e) ==
    IF a.cplx THEN <<PyFloat(e.im), PyFloat(e.re)>> ELSE <<PyInt(e.re)>>

\* the values element e of array a adds to row_data
ElemValues(a, e) ==
    IF a.cplx THEN <<PyFloat(e.re), PyFloat(e.im)>> ELSE <<PyInt(e.re)>>

\* mutant: the loop over the rows stops one row early
RowsDoneEarly(i, n) == i >= n - 1

\* xrange(n) is used up after i turns
RowsDone(i, n) == i >= n

\* the values of row i (counted from 0), array by array
RECURSIVE RowData(_, _, _)
RowData(as, k, i) ==
    IF k > Len(as) THEN [exc |-> "none", vals |-> <<>>]
    ELSE LET a == as[k]
         IN  IF i >= Len(a.el) THEN [exc |-> "IndexError", vals |-> <<>>]
             ELSE LET e == a.el[i + 1]
                      r == RowData(as, k + 1, i)
                  IN  IF r.exc # "none" THEN r
                      ELSE [exc  |-> "none",
                            vals |-> ElemValues(a, e) \o r.vals]

\* the row whose values are d.vals, formatted as t, is printed, unless
\* fetching the values, formatting them or the print statement raises
PrintRow(d, t) ==
    IF d.exc # "none"
    THEN /\ exc' = d.exc /\ pc' = "finally"
         /\ UNCHANGED <<out, i_row, row_data>>
    ELSE IF t.err # "none"
    THEN /\ exc' = t.err /\ pc' = "finally" /\ row_data' = d.vals
         /\ UNCHANGED <<out, i_row>>
    ELSE IF ~CanWrite
    THEN /\ exc' = "IOError" /\ pc' = "finally" /\ row_data' = d.vals
         /\ UNCHANGED <<out, i_row>>
    ELSE /\ out' = Append(out, Printed("data", t.text, row_fmt, d.vals))
         /\ row_data' = d.vals /\ i_row' = i_row + 1
         /\ UNCHANGED <<pc, exc>>

\* one turn of the loop that writes out the data
WriteRow ==
    /\ pc = "rows" /\ ~RowsDone(i_row, n_rows)
    /\ PrintRow(RowData(args, 1, i_row),
                PyFormat(row_fmt, RowData(args, 1, i_row).vals))
    /\ UNCHANGED <<callee, inputs, sink, header_lines, footer_lines,
                   n_cols, n_rows, row_fmt, completed_row_fmt, color>>

\* the footer is joined and split once all rows are written
SplitFooter ==
    /\ pc = "rows" /\ RowsDone(i_row, n_rows)
    /\ footer_lines' = BlockLines(footer)
    /\ pc' = "footer"
    /\ UNCHANGED <<callee, inputs, sink, out, exc, header_lines, locals, color>>

\* one turn of the loop that prints the footer
WriteFooterLine ==
    /\ pc = "footer" /\ footer_lines # <<>>
    /\ IF CanWrite
       THEN /\ out' = Append(out, Printed("footer",
                          FooterLine(Head(footer_lines), comments), <<>>, <<>>))
            /\ footer_lines' = Tail(footer_lines)
            /\ UNCHANGED <<pc, exc>>
       ELSE /\ exc' = "IOError" /\ pc' = "finally"
            /\ UNCHANGED <<out, footer_lines>>
    /\ UNCHANGED <<callee, inputs, sink, header_lines, locals, color>>

\* the try block ends without an exception
EndOfTry ==
    /\ pc = "footer" /\ footer_lines = <<>>
    /\ pc' = "finally"
    /\ UNCHANGED <<callee, inputs, sink, out, exc, header_lines, footer_lines, locals, color>>

\* mutant: the handle is closed whoever owns it
ReleaseAlways(own, h) == "closed"

\* the handle after the finally clause
Release(own, h) == IF own THEN "closed" ELSE h

\* The exception pending after the finally clause: an IOError raised by
\* fh.close() takes the place of the one the try block raised, if any.
AfterClose(own, e, pending) == IF own /\ e.closeFails THEN "IOError" ELSE pending

\* finally: close the handle if the routine owns it; the call returns or raises
Finally ==
    /\ pc = "finally"
    /\ fh' = Release(own_fh, fh)
    /\ exc' = AfterClose(own_fh, env, exc)
    /\ pc' = "done"
    /\ UNCHANGED <<callee, inputs, own_fh, opener, out, header_lines, footer_lines,
                   locals, color>>

(* ------------------------------ get_color ------------------------------ *)
\* the module dictionary colors
colors ==
    (<<"w", "h", "i", "t", "e">> :> <<255, 255, 255>>) @@
    (<<"b", "l", "a", "c", "k">> :> <<0, 0, 0>>) @@
    (<<"b", "l", "u", "e">> :> <<55, 126, 184>>) @@
    (<<"o", "r", "a", "n", "g", "e">> :> <<255, 127, 0>>) @@
    (<<"r", "e", "d">> :> <<228, 26, 28>>) @@
    (<<"g", "r", "e", "e", "n">> :> <<77, 175, 74>>) @@
    (<<"p", "u", "r", "p", "l", "e">> :> <<152, 78, 163>>) @@
    (<<"b", "r", "o", "w", "n">> :> <<166, 86, 40>>) @@
    (<<"p", "i", "n", "k">> :> <<247, 129, 191>>) @@
    (<<"y", "e", "l", "l", "o", "w">> :> <<210, 210, 21>>) @@
    (<<"l", "i", "g", "h", "t", "r", "e", "d">> :> <<251, 154, 153>>) @@
    (<<"l", "i", "g", "h", "t", "b", "l", "u", "e">> :> <<166, 206, 227>>) @@
    (<<"l", "i", "g", "h", "t", "o", "r", "a", "n", "g", "e">> :> <<253, 191, 111>>) @@
    (<<"l", "i", "g", "h", "t", "g", "r", "e", "e", "n">> :> <<178, 223, 138>>) @@
    (<<"l", "i", "g", "h", "t", "p", "u", "r", "p", "l", "e">> :> <<202, 178, 214>>) @@
    (<<"g", "r", "e", "y">> :> <<153, 153, 153>>)

UpperCase == <<"A", "B", "C", "D", "E", "F", "G", "H", "I", "J", "K", "L", "M",
               "N", "O", "P", "Q", "R", "S", "T", "U", "V", "W", "X", "Y", "Z">>
LowerCase == <<"a", "b", "c", "d", "e", "f", "g", "h", "i", "j", "k", "l", "m",
               "n", "o", "p", "q", "r", "s", "t", "u", "v", "w", "x", "y", "z">>

\* str.lower
Lower(s) ==
    [i \in DOMAIN s |->
        IF \E k \in DOMAIN UpperCase : UpperCase[k] = s[i]
        THEN LowerCase[CHOOSE k \in DOMAIN UpperCase : UpperCase[k] = s[i]]
        ELSE s[i]]

\* "%02x" % v for v in 0..255
HexDigit(n) == <<"0", "1", "2", "3", "4", "5", "6", "7", "8", "9",
                 "a", "b", "c", "d", "e", "f">>[n + 1]
Hex02(v) == <<HexDigit(v \div 16), HexDigit(v % 16)>>

\* the names, alpha values and formats get_color is called with: the names
\* of the table, two of them in another case, and a name that is no colour
ColorArgs ==
    [name   : DOMAIN colors \cup {<<"B", "l", "u", "e">>, <<"G", "R", "E", "Y">>,
                                  <<"c", "y", "a", "n">>},
     alpha  : {0, 1},
     format : {"web", "rgb", "rgba", "hsv"}]

\* what get_color(name, alpha, format) returns or raises
get_color(name, alpha, format) ==
    IF Lower(name) \notin DOMAIN colors
    THEN [type |-> "KeyError", val |-> <<>>]
    ELSE LET rgb == colors[Lower(name)]
             r   == rgb[1]
             g   == rgb[2]
             b   == rgb[3]
         IN  IF format = "web"
             THEN [type |-> "str", val |-> <<"#">> \o Hex02(r) \o Hex02(g) \o Hex02(b)]
             ELSE IF format = "rgb"
             THEN [type |-> "tuple", val |-> <<r, g, b>>]
             ELSE IF format = "rgba"
             THEN [type |-> "tuple", val |-> <<r, g, b, alpha>>]
             ELSE [type |-> "None", val |-> <<>>]

\* a call of get_color
GetColor ==
    /\ pc = "idle"
    /\ \E c \in ColorArgs :
         /\ color_call' = c
         /\ ret' = get_color(c.name, c.alpha, c.format)
    /\ pc' = "done" /\ callee' = "get_color"
    /\ UNCHANGED <<inputs, sink, out, exc, header_lines, footer_lines, locals>>

Next ==
    \/ Enter
    \/ WriteHeaderLine
    \/ Prepare
    \/ WriteRow
    \/ SplitFooter
    \/ WriteFooterLine
    \/ EndOfTry
    \/ Finally
    \/ GetColor

Spec == Init /\ [][Next]_vars

(* ------------------------------ the claims ----------------------------- *)
\* the number of scalar columns of the arrays: 1 for a real array, 2 for a
\* complex one
Slots(as) ==
    Cardinality({j \in DOMAIN as : ~as[j].cplx})
        + 2 * Cardinality({j \in DOMAIN as : as[j].cplx})

SameLength(as) == \A j, k \in DOMAIN as : Len(as[j].el) = Len(as[k].el)

LinesFrom(src) == SelectSeq(out, LAMBDA r : r.src = src)

\* writetotxt has got past the header and has looked at the arrays and at fmt
Checked ==
    /\ callee = "writetotxt" /\ opener # "none"
    /\ pc \notin {"idle", "header"} /\ header_lines = <<>>

\* the call has ended in the finally clause with the IOError of fh.close(),
\* which took the place of the error the call had raised, if any
CloseFailed == pc = "done" /\ own_fh /\ env.closeFails

\* C1: a file the routine opened from a path is closed when the call has
\* returned or raised, whatever the way out; a stream handed in by the caller
\* is never closed by the routine, in no state of the call.
C1_SinkOwnership ==
    /\ (pc = "done" /\ opener \in {"open", "gzip.open"}) => fh = "closed"
    /\ opener = "caller" => fh = "open"

\* a call on a path that raised the row-length error after printing the
\* header, and left the file closed
C1_Witness ==
    /\ pc = "done" /\ fname.isstr /\ opener = "gzip.open" /\ fh = "closed"
    /\ exc = ErrLength /\ out # <<>>

\* C2: a call whose arrays do not all have the same length raises the
\* row-length error, and no data row is written (a call whose file failed
\* to close is left aside).
C2_RowLengthValidation ==
    (Checked /\ ~CloseFailed /\ ~SameLength(args))
        => (exc = ErrLength /\ LinesFrom("data") = <<>>)

\* C3: a data row is only ever written with a row template that has as many
\* % markers as there are scalar columns (1 for a real array, 2 for a complex
\* one), whatever the form of fmt.
C3_FormatSlotValidation ==
    \A k \in DOMAIN out :
        out[k].src = "data" => Count(out[k].tmpl, "%") = Slots(args)

\* C4 as claimed: with 2 real arrays of one length, a str fmt that holds a
\* single formatting directive is rejected with the format error (a call
\* whose file failed to close is left aside).
C4_SingleDirectiveRejected ==
    (/\ Checked /\ ~CloseFailed /\ SameLength(args)
     /\ Len(args) = 2 /\ \A j \in DOMAIN args : ~args[j].cplx
     /\ fmt.kind = "str" /\ Count(fmt.s, "%") = 1)
        => exc = ErrFormat

\* C4 as amended: with arrays of one length and a delimiter without %, a str
\* fmt with exactly one directive is never rejected with the format error,
\* one with two or more directives is rejected exactly when their number
\* differs from the number of scalar columns, and one without a directive
\* exactly when there is a scalar column; a call whose file fails to close
\* ends with the IOError of the close instead.
C4_StrFmtRejection ==
    (/\ Checked /\ SameLength(args)
     /\ fmt.kind = "str" /\ Count(delimiter, "%") = 0)
        => LET c == Count(fmt.s, "%")
           IN  IF CloseFailed THEN exc = "IOError"
               ELSE (exc = ErrFormat) <=>
                        IF c = 1 THEN FALSE
                        ELSE IF c > 1 THEN c # Slots(args)
                        ELSE Slots(args) > 0

\* 2 real arrays of length 2 written with the one-directive fmt "k=%d": the
\* call returned without an error and each row holds the fmt twice
C4_Witness ==
    /\ pc = "done" /\ exc = "none" /\ callee = "writetotxt"
    /\ Len(args) = 2 /\ \A j \in DOMAIN args : ~args[j].cplx
    /\ fmt = Str(<<"k", "=", "%", "d">>) /\ delimiter = <<" ">>
    /\ Len(LinesFrom("data")) = 2
    /\ LinesFrom("data")[1].text = <<"k", "=", "1", " ", "k", "=", "3">>

\* what the comment prefix c makes of the line raw: unchanged when raw starts
\* with c; else, when raw starts with Len(c) spaces, c in the place of these;
\* else c in front of raw
Normalized(raw, text, c) ==
    IF StartsWith(raw, c) THEN text = raw
    ELSE IF Len(raw) >= Len(c) /\ \A i \in 1..Len(c) : raw[i] = " "
    THEN /\ Len(text) = Len(raw)
         /\ \A i \in 1..Len(text) : text[i] = IF i <= Len(c) THEN c[i] ELSE raw[i]
    ELSE /\ Len(text) = Len(raw) + Len(c)
         /\ \A i \in 1..Len(text) :
                text[i] = IF i <= Len(c) THEN c[i] ELSE raw[i - Len(c)]

\* the lines printed so far from a header or footer, against the lines of it
NormalizedBlock(src, block) ==
    LET printed == LinesFrom(src)
        raw     == BlockLines(block)
    IN  /\ Len(printed) <= Len(raw)
        /\ \A k \in DOMAIN printed :
              /\ Normalized(raw[k], printed[k].text, comments)
              /\ Normalized(printed[k].text, printed[k].text, comments)

\* C5: every header line and every footer line that is printed is the line
\* it comes from, normalized by the comment prefix (kept when it starts with
\* the prefix, the prefix over its first characters when these are spaces,
\* the prefix in front otherwise), and is itself left as it is by the
\* normalization.
C5_CommentPrefix ==
    callee = "writetotxt" =>
        NormalizedBlock("header", header) /\ NormalizedBlock("footer", footer)

\* a call that printed a header line and a footer line with the prefix in
\* the place of leading spaces, a header line with the prefix in front, and
\* a header line that had the prefix
C5_Witness ==
    /\ pc = "done" /\ exc = "none" /\ comments = <<"#", " ">>
    /\ LET h  == LinesFrom("header")
           f  == LinesFrom("footer")
           hr == BlockLines(header)
           fr == BlockLines(footer)
       IN  /\ Len(h) = 4 /\ Len(f) = 2
           /\ h[1].text = hr[1]
           /\ hr[2] = <<" ", " ", "t">> /\ h[2].text = <<"#", " ", "t">>
           /\ hr[3] = <<"t">> /\ h[3].text = <<"#", " ", "t">>
           /\ hr[4] = <<" ", "t">> /\ h[4].text = <<"#", " ", " ", "t">>
           /\ fr[1] = <<" ", " ", "e">> /\ f[1].text = <<"#", " ", "e">>

\* the call of writetotxt has returned without raising
Success == callee = "writetotxt" /\ pc = "done" /\ exc = "none"

\* the length the arrays have in common
CommonLength(as) == IF as = <<>> THEN 0 ELSE Len(as[1].el)

\* vals is row i (counted from 1) of the arrays: array j fills the places
\* after those of the arrays before it, one place with its element i when it
\* is real, two places with the real and the imaginary part when it is complex
RowMatches(vals, as, i) ==
    /\ Len(vals) = Slots(as)
    /\ \A j \in DOMAIN as :
          LET o == Slots(SubSeq(as, 1, j - 1))
              e == as[j].el[i]
          IN  IF as[j].cplx
              THEN vals[o + 1].num = e.re /\ vals[o + 2].num = e.im
              ELSE vals[o + 1].num = e.re

Rank(src) == IF src = "header" THEN 1 ELSE IF src = "data" THEN 2 ELSE 3

\* C6: the sink never gets a header line after a data line, nor a footer
\* line before a data line; and a call on arrays of common length N that
\* returns without an error has printed all header lines, then N data lines
\* that are the rows 0..N-1 in this order, then all footer lines, and
\* nothing else.
C6_EmissionOrder ==
    /\ \A i, j \in DOMAIN out : i < j => Rank(out[i].src) <= Rank(out[j].src)
    /\ (Success /\ SameLength(args)) =>
          LET h == Len(BlockLines(header))
              n == CommonLength(args)
              f == Len(BlockLines(footer))
          IN  /\ Len(out) = h + n + f
              /\ \A k \in 1..h : out[k].src = "header"
              /\ \A k \in 1..n : /\ out[h + k].src = "data"
                                 /\ RowMatches(out[h + k].vals, args, k)
              /\ \A k \in 1..f : out[h + n + k].src = "footer"

\* a call that returned after 2 header lines, 2 data lines and 1 footer line
C6_Witness ==
    /\ Success /\ SameLength(args) /\ CommonLength(args) = 2
    /\ Len(LinesFrom("header")) = 2 /\ Len(LinesFrom("data")) = 2
    /\ Len(LinesFrom("footer")) = 1

\* C7: the values of every data row that is written are the elements of that
\* row, array by array in the order of the arrays: one value for a real
\* array, the real and then the imaginary part for a complex array; their
\* number is the number of real arrays plus twice that of complex arrays.
C7_ComplexExpansion ==
    LET d == LinesFrom("data")
    IN  \A k \in DOMAIN d : RowMatches(d[k].vals, args, k)

\* a real, a complex and a real array of length 2: the second row is written
\* with the four values 2, 4 and 10, 6
C7_Witness ==
    /\ Success /\ Len(args) = 3
    /\ ~args[1].cplx /\ args[2].cplx /\ ~args[3].cplx
    /\ Len(LinesFrom("data")) = 2
    /\ LinesFrom("data")[2].vals
           = <<PyInt(2), PyFloat(4), PyFloat(10), PyInt(6)>>

\* C8: when the call raises the row-length error or the format error, what
\* it has printed is the header, line by line and normalized, and nothing
\* after it.
C8_PartialWrite ==
    (callee = "writetotxt" /\ exc \in {ErrLength, ErrFormat}) =>
        LET raw == BlockLines(header)
        IN  /\ Len(out) = Len(raw)
            /\ \A k \in DOMAIN out :
                  /\ out[k].src = "header"
                  /\ Normalized(raw[k], out[k].text, comments)

\* a call that raised the format error and left the 2 lines of its header
C8_Witness ==
    /\ pc = "done" /\ exc = ErrFormat
    /\ Len(out) = 2 /\ out[2].text = <<"#", " ", "u">>

\* C9: a call whose fname is no str and has no write attribute raises the
\* invalid-sink error at once: nothing is opened, nothing is printed, and
\* neither the header nor the arrays nor fmt are looked at.
C9_InvalidSink ==
    (callee = "writetotxt" /\ ~fname.isstr /\ ~fname.haswrite) =>
        /\ pc = "done" /\ exc = ErrSink
        /\ fh = "none" /\ opener = "none" /\ ~own_fh
        /\ out = <<>> /\ header_lines = <<>>
        /\ n_cols = 0 /\ n_rows = 0 /\ row_fmt = <<>>

\* the invalid-sink error of a call that has a header and arrays of
\* different lengths
C9_Witness ==
    /\ callee = "writetotxt" /\ exc = ErrSink /\ pc = "done"
    /\ header.s # <<>> /\ ~SameLength(args)

\* C10: for a name of the table, get_color returns with format rgb a tuple
\* (r, g, b) and with format rgba a tuple (r, g, b, a), and r, g and b lie
\* in [0, 1).
C10_ColorComponentsInUnitInterval ==
    (/\ callee = "get_color" /\ color_call.format \in {"rgb", "rgba"}
     /\ Lower(color_call.name) \in DOMAIN colors)
        => /\ ret.type = "tuple"
           /\ Len(ret.val) = IF color_call.format = "rgb" THEN 3 ELSE 4
           /\ \A i \in 1..3 : 0 <= ret.val[i] /\ ret.val[i] < 1

\* C11 as claimed, for a list that has one token for every array: the row
\* template is the tokens joined with the delimiter, and the number of
\* columns the format test uses is the length of the list, whatever arrays
\* are complex (a call that raised the row-length error, or whose file
\* failed to close, is left aside).
C11_ColumnCountIsFmtLength ==
    (/\ Checked /\ ~CloseFailed
     /\ fmt.kind = "list" /\ Len(fmt.l) = Len(args) /\ exc # ErrLength) =>
        /\ row_fmt = Join(delimiter, fmt.l)
        /\ n_cols = Len(fmt.l)

\* C11 as amended: with a list as fmt, and unless the row-length error is
\* raised, the row template is the tokens joined with the delimiter, the
\* number of columns the format test uses is that of the arrays (1 for a
\* real array, 2 for a complex one) and not the length of the list, and the
\* format error is raised exactly when the joined tokens hold another
\* number of % markers; a call whose file fails to close ends with the
\* IOError of the close instead.
C11_ColumnCountIsSlots ==
    (Checked /\ fmt.kind = "list") =>
        IF CloseFailed THEN exc = "IOError"
        ELSE exc # ErrLength =>
                /\ row_fmt = Join(delimiter, fmt.l)
                /\ n_cols = Slots(args)
                /\ (exc = ErrFormat) <=> (Count(Join(delimiter, fmt.l), "%") # Slots(args))

\* one complex array written with the list ["%d", "%d"]: 2 columns are
\* counted for the one array, and the row is its real and imaginary part
C11_Witness ==
    /\ Success /\ fmt = Lst(<<PD, PD>>) /\ delimiter = <<" ">>
    /\ Len(args) = 1 /\ args[1].cplx /\ n_cols = 2
    /\ Len(LinesFrom("data")) = 1
    /\ LinesFrom("data")[1].vals = <<PyFloat(1), PyFloat(MaxRows * MaxCols + 1)>>

NewlineFree(list) == \A i \in DOMAIN list : Count(list[i], NL) = 0

\* C12 as claimed: a header given as a list of k >= 1 strings without a
\* newline is printed as exactly k lines, empty strings included.
C12_SequenceLineCount ==
    (Checked /\ header.kind = "list" /\ Len(header.l) >= 1 /\ NewlineFree(header.l))
        => Len(LinesFrom("header")) = Len(header.l)

\* the lines printed from a header or footer, once all of it is printed: none
\* when its text is empty; else one line for every line of the text, an
\* empty line as the comment prefix alone, and for a list of strings without
\* a newline one line for every string
LineCount(src, block) ==
    LET p    == LinesFrom(src)
        text == IF block.kind = "list" THEN Join(<<NL>>, block.l) ELSE block.s
    IN  IF text = <<>> THEN p = <<>>
        ELSE /\ Len(p) = Count(text, NL) + 1
             /\ \A i \in DOMAIN p : SplitLines(text)[i] = <<>> => p[i].text = comments
             /\ (block.kind = "list" /\ NewlineFree(block.l)) =>
                   /\ Len(p) = Len(block.l)
                   /\ \A i \in DOMAIN p : Normalized(block.l[i], p[i].text, comments)

\* C12 as amended: a header or footer whose text (the string, or the list
\* joined with newlines) is not empty is printed as one line for every line
\* of the text, an empty line as the comment prefix alone, so that a list of
\* k >= 1 strings without a newline gives exactly k lines; a header or
\* footer whose text is empty, the list [""] included, prints no line.
C12_LineCount ==
    /\ Checked => LineCount("header", header)
    /\ Success => LineCount("footer", footer)

\* a header given as the list ["", ""] is printed as two lines that are the
\* comment prefix, and the footer ["# e", "", " e"] as three lines
C12_Witness ==
    /\ Success /\ comments = <<"#", " ">>
    /\ header = Lst(<<<<>>, <<>>>>)
    /\ Len(LinesFrom("header")) = 2
    /\ \A i \in 1..2 : LinesFrom("header")[i].text = <<"#", " ">>
    /\ Len(footer.l) = 3 /\ Len(LinesFrom("footer")) = 3
    /\ LinesFrom("footer")[2].text = <<"#", " ">>

====
